---------------------------- MODULE Spec2Model ----------------------------
(***************************************************************************)
(* A model of tinyaudio_cli.py: option resolution (bitrate, low-pass rule, *)
(* filter chain, output path) and the sequential batch loop of main() that *)
(* runs compress_audio() on every discovered file.                         *)
(*                                                                         *)
(* Conventions.  An optional Python value is a tuple: <<>> is None and     *)
(* <<v>> is the value v.  A Python str is a tuple of one-character         *)
(* strings.  A path is a tuple of components, each a record with the       *)
(* component's stem (a tuple of name pieces) and its extension.  Durations *)
(* are whole seconds; silence durations are tenths of a second.            *)
(***************************************************************************)
EXTENDS Integers, Sequences, FiniteSets, TLC

VARIABLES
    argv,           \* the options as argparse returned them (never written)
    args,           \* the argparse namespace the code reads and writes
    audio_files,    \* collect_inputs(): the sorted, de-duplicated inputs
    output_is_dir,  \* main(): output_is_dir, computed once before the loop
    fs,             \* the regular files that exist: path -> size class
    dirs,           \* the directories that exist
    pc,             \* where main() is
    idx,            \* the loop position in audio_files (1-based)
    job,            \* the job compress_audio() is running, or ran last
    success_count,  \* main(): success_count
    failed_count,   \* main(): failed_count
    results,        \* the value compress_audio() returned, per file
    outcomes,       \* how each finished job ended, per file
    visits,         \* how often compress_audio() was called, per file
    started         \* per job begun: its paths, and how often ffprobe and
                    \* ffmpeg were started for it

vars == <<argv, args, audio_files, output_is_dir, fs, dirs, pc, idx, job,
          success_count, failed_count, results, outcomes, visits, started>>

----------------------------------------------------------------------------
(* Optional values and Python truthiness                                   *)

None == <<>>

Some(v) == <<v>>

IsNone(o) == o = <<>>

Val(o) == o[1]

\* Python's `x if x is not None else y`
OrElse(o, d) == IF IsNone(o) THEN d ELSE o

\* Python's truth value of an optional integer: None and 0 are false
TruthyInt(o) == ~IsNone(o) /\ Val(o) # 0

\* Python's truth value of an optional str or path: None and "" are false
TruthySeq(o) == ~IsNone(o) /\ Val(o) # <<>>

Max(a, b) == IF a >= b THEN a ELSE b

Min(a, b) == IF a <= b THEN a ELSE b

RECURSIVE Pow10(_)
Pow10(n) == IF n = 0 THEN 1 ELSE 10 * Pow10(n - 1)

----------------------------------------------------------------------------
(* The preset table                                                        *)

PRESETS ==
    [ voice   |-> [samplerate |-> 24000, channels |-> 1, bitrate_bps |-> 32000,
                   codec |-> "opus", lufs |-> Some(-16),
                   highpass |-> Some(80), lowpass |-> Some(12000)],
      music   |-> [samplerate |-> 48000, channels |-> 2, bitrate_bps |-> 80000,
                   codec |-> "opus", lufs |-> Some(-14),
                   highpass |-> None, lowpass |-> None],
      podcast |-> [samplerate |-> 44100, channels |-> 1, bitrate_bps |-> 64000,
                   codec |-> "opus", lufs |-> Some(-16),
                   highpass |-> Some(60), lowpass |-> Some(15000)] ]

PresetNames == {"voice", "music", "podcast"}

DEFAULT_PRESET == "voice"

\* compute_bitrate_for_target_size: the bounds of the clamp
MinBitrate == 6000

MaxBitrate == 512000

\* compress_audio: the ultra-low-bitrate rule of the voice preset
UltraLowBitrate == 24000

UltraLowLowpass == 8000

----------------------------------------------------------------------------
(* Strings: the two regular expressions of the program                     *)

DigitChars == {"0", "1", "2", "3", "4", "5", "6", "7", "8", "9"}

SpaceChars == {" "}

DigitVal(c) ==
    CASE c = "0" -> 0 [] c = "1" -> 1 [] c = "2" -> 2 [] c = "3" -> 3
      [] c = "4" -> 4 [] c = "5" -> 5 [] c = "6" -> 6 [] c = "7" -> 7
      [] c = "8" -> 8 [] c = "9" -> 9

\* int() of a string of decimal digits
RECURSIVE IntOfDigits(_)
IntOfDigits(ds) ==
    IF ds = <<>> THEN 0
    ELSE 10 * IntOfDigits(SubSeq(ds, 1, Len(ds) - 1)) + DigitVal(ds[Len(ds)])

\* the first position >= i of s whose character is not in class (Len(s)+1 if
\* none): what a greedy `[class]*` consumes from position i
RECURSIVE SkipWhile(_, _, _)
SkipWhile(s, i, class) ==
    IF i <= Len(s) /\ s[i] \in class THEN SkipWhile(s, i + 1, class) ELSE i

\* re.match(r"^\s*(\d+)\s*[kK]?\s*$", s): the digits matched, or no match.
\* The classes are disjoint, so the greedy scan is the only way to match.
BitrateMatch(s) ==
    LET a == SkipWhile(s, 1, SpaceChars)
        b == SkipWhile(s, a, DigitChars)
        c == SkipWhile(s, b, SpaceChars)
        d == IF c <= Len(s) /\ s[c] \in {"k", "K"} THEN c + 1 ELSE c
        e == SkipWhile(s, d, SpaceChars)
    IN  IF b > a /\ e = Len(s) + 1
        THEN [ok |-> TRUE, digits |-> SubSeq(s, a, b - 1)]
        ELSE [ok |-> FALSE, digits |-> <<>>]

\* the digits taken as bits/sec
BitrateUnscaled(m) == IntOfDigits(m.digits)

\* compress_audio, line 241: int(m.group(1)) * 1000
BitrateScale(m) == IntOfDigits(m.digits) * 1000

\* compress_audio, the `elif args.b:` branch: the bitrate in bits/sec, or
\* ValueError("Invalid bitrate")
ParseBitrate(s) ==
    LET m == BitrateMatch(s)
    IN  IF m.ok THEN [ok |-> TRUE, val |-> BitrateScale(m)]
        ELSE [ok |-> FALSE, val |-> 0]

UnitChars == {"K", "M", "G", "k", "m", "g"}

ByteChars == {"B", "b"}

\* a scale table of powers of 1000
UnitScaleDecimal(u) ==
    CASE u \in {"K", "k"} -> 1000
      [] u \in {"M", "m"} -> 1000 * 1000
      [] u \in {"G", "g"} -> 1000 * 1000 * 1000
      [] OTHER -> 1

\* the scale table of human_to_bytes, by the upper-cased unit's first letter
UnitScale(u) ==
    CASE u \in {"K", "k"} -> 1024
      [] u \in {"M", "m"} -> 1024 * 1024
      [] u \in {"G", "g"} -> 1024 * 1024 * 1024
      [] OTHER -> 1

\* float() accepts a run of digits and dots iff it has one dot at most and a
\* digit at least
FloatOk(num) ==
    /\ Cardinality({i \in 1..Len(num) : num[i] = "."}) <= 1
    /\ \E i \in 1..Len(num) : num[i] \in DigitChars

\* int(float(num) * scale) for a scale that is a power of two: the product is
\* exact in binary floating point, so this is the floor of the decimal value
ScaledInt(num, scale) ==
    LET dot  == IF \E i \in 1..Len(num) : num[i] = "."
                THEN CHOOSE i \in 1..Len(num) : num[i] = "." ELSE Len(num) + 1
        whole == SubSeq(num, 1, dot - 1)
        frac == SubSeq(num, dot + 1, Len(num))
    IN  (IntOfDigits(whole \o frac) * scale) \div Pow10(Len(frac))

\* human_to_bytes(s): re.match(r"^\s*([\d.]+)\s*([KMG]?B)?\s*$", s,
\* re.IGNORECASE), then float(), then the scale table; ok = FALSE is ValueError
human_to_bytes(s) ==
    LET a == SkipWhile(s, 1, SpaceChars)
        b == SkipWhile(s, a, DigitChars \cup {"."})
        c == SkipWhile(s, b, SpaceChars)
        hasPrefix == c + 1 <= Len(s) /\ s[c] \in UnitChars /\ s[c + 1] \in ByteChars
        hasByte == c <= Len(s) /\ s[c] \in ByteChars
        d == IF hasPrefix THEN c + 2 ELSE IF hasByte THEN c + 1 ELSE c
        e == SkipWhile(s, d, SpaceChars)
        num == SubSeq(s, a, b - 1)
        scale == IF hasPrefix THEN UnitScale(s[c]) ELSE 1
    IN  IF b > a /\ e = Len(s) + 1 /\ FloatOk(num)
        THEN [ok |-> TRUE, val |-> ScaledInt(num, scale)]
        ELSE [ok |-> FALSE, val |-> 0]

----------------------------------------------------------------------------
(* Bitrate resolution                                                      *)

\* compute_bitrate_for_target_size: max(6000, min(br, 512000))
Clamp(br) == Max(MinBitrate, Min(br, MaxBitrate))

\* compute_bitrate_for_target_size, lines 138-139:
\* int(target_bytes * 8 * 0.97 / duration_sec), for duration_sec > 0.  Python
\* computes it without overflow; here the quotient is taken first, with
\* target_bytes = q * d + r and d = 100 * duration_sec, so that
\* 776 * target_bytes / d = 776 * q + 776 * r / d.  A quotient above the
\* largest bitrate stands for a value above it: it is clamped to the same.
BitsPerSecond(target_bytes, duration_sec) ==
    LET d == 100 * duration_sec
        q == target_bytes \div d
        r == target_bytes % d
    IN  IF q > MaxBitrate THEN q
        ELSE 8 * 97 * q + (8 * 97 * r) \div d

\* the same without the 3% cushion for container and headers
BitsPerSecondWithoutCushion(target_bytes, duration_sec) ==
    LET q == target_bytes \div duration_sec
        r == target_bytes % duration_sec
    IN  IF q > MaxBitrate THEN q ELSE 8 * q + (8 * r) \div duration_sec

compute_bitrate_without_cushion(target_bytes, duration_sec) ==
    IF duration_sec <= 0 THEN [ok |-> FALSE, val |-> 0]
    ELSE [ok |-> TRUE,
          val |-> Clamp(BitsPerSecondWithoutCushion(target_bytes, duration_sec))]

\* compute_bitrate_for_target_size(target_bytes, duration_sec); ok = FALSE is
\* ValueError("Duration must be positive")
compute_bitrate_for_target_size(target_bytes, duration_sec) ==
    IF duration_sec <= 0 THEN [ok |-> FALSE, val |-> 0]
    ELSE [ok |-> TRUE, val |-> Clamp(BitsPerSecond(target_bytes, duration_sec))]

\* compress_audio, "Determine bitrate": which branch the code takes
BitrateSource(a) ==
    IF TruthyInt(a.ts) THEN "target_size"
    ELSE IF TruthySeq(a.b) THEN "explicit"
    ELSE "preset"

\* compress_audio, "Determine bitrate": the bitrate, or the exception
ResolveBitrate(a, preset_config, duration) ==
    CASE BitrateSource(a) = "target_size" ->
            compute_bitrate_for_target_size(Val(a.ts), duration)
      [] BitrateSource(a) = "explicit" -> ParseBitrate(Val(a.b))
      [] OTHER -> [ok |-> TRUE, val |-> preset_config.bitrate_bps]

\* compress_audio, "Adjust lowpass for ultra-low bitrates": args.lp afterwards
AdjustLowpass(a, bitrate_bps) ==
    IF a.preset = "voice" /\ bitrate_bps <= UltraLowBitrate /\ IsNone(a.lp)
    THEN Some(UltraLowLowpass)
    ELSE a.lp

----------------------------------------------------------------------------
(* Filter chain and encoder command                                        *)

Stage(kind, x, y) == [kind |-> kind, x |-> x, y |-> y]

\* build_filterchain, "Silence trim": the stage, if requested
SilenceStages(a) ==
    IF a.st
    THEN LET thr == IF ~IsNone(a.sth) THEN Val(a.sth)
                    ELSE IF a.preset = "voice" THEN -50 ELSE -45
             dur == IF ~IsNone(a.sd) THEN Val(a.sd)
                    ELSE IF a.preset = "voice" THEN 5 ELSE 8
         IN  <<Stage("silenceremove", dur, thr)>>
    ELSE <<>>

\* build_filterchain, "High-pass for rumble removal"
HighpassStages(a, preset_config) ==
    LET hp == OrElse(a.hp, preset_config.highpass)
    IN  IF TruthyInt(hp) THEN <<Stage("highpass", Val(hp), 0)>> ELSE <<>>

\* build_filterchain, "Low-pass to save bits"
LowpassStages(a, preset_config) ==
    LET lp == OrElse(a.lp, preset_config.lowpass)
    IN  IF TruthyInt(lp) THEN <<Stage("lowpass", Val(lp), 0)>> ELSE <<>>

\* build_filterchain, "Loudness normalization"
LoudnormStages(a, preset_config) ==
    LET lufs == OrElse(a.lufs, preset_config.lufs)
    IN  IF ~IsNone(lufs) THEN <<Stage("loudnorm", Val(lufs), 0)>> ELSE <<>>

\* a chain with the low-pass stage appended before the high-pass stage
build_filterchain_lowpass_first(a, preset_config) ==
    SilenceStages(a) \o LowpassStages(a, preset_config)
        \o HighpassStages(a, preset_config) \o LoudnormStages(a, preset_config)

\* build_filterchain(args, preset_config): the stages in the order appended
build_filterchain(a, preset_config) ==
    SilenceStages(a) \o HighpassStages(a, preset_config)
        \o LowpassStages(a, preset_config) \o LoudnormStages(a, preset_config)

Codecs == {"opus", "aac", "mp3"}

\* normalize_ext_for_codec(codec)
normalize_ext_for_codec(codec) ==
    CASE codec = "opus" -> ".opus"
      [] codec = "aac" -> ".m4a"
      [] codec = "mp3" -> ".mp3"
      [] OTHER -> ".m4a"

\* build_ffmpeg_cmd: the parameters of the command line; ok = FALSE is
\* ValueError("Unsupported codec")
build_ffmpeg_cmd(inp, out, codec, bitrate_bps, samplerate, channels, filterchain) ==
    [ok |-> codec \in Codecs,
     cmd |-> [input |-> inp, output |-> out, codec |-> codec,
              bitrate_bps |-> bitrate_bps, samplerate |-> samplerate,
              channels |-> channels, filterchain |-> filterchain]]

----------------------------------------------------------------------------
(* Paths                                                                   *)

Comp(stem, ext) == [stem |-> stem, ext |-> ext]

\* pathlib: Path.parent, Path.stem, Path.suffix, and dir / name
Parent(p) == SubSeq(p, 1, Len(p) - 1)

Stem(p) == p[Len(p)].stem

Suffix(p) == p[Len(p)].ext

Join(d, stem, ext) == Append(d, Comp(stem, ext))

AUDIO_EXTS == {".wav", ".mp3", ".m4a", ".aac", ".flac", ".ogg", ".opus",
               ".wma", ".aiff", ".aif", ".aifc", ".caf"}

\* main: single_file and output_is_dir
SingleFile(files) == Len(files) = 1

OutputIsDir(a, files, ds) ==
    TruthySeq(a.output) /\ (Val(a.output) \in ds \/ ~SingleFile(files))

\* main, "Determine output path": the path before the safety check
DerivedOutput(a, preset_config, files, is_dir, audio_file) ==
    LET codec == IF ~IsNone(a.codec) THEN Val(a.codec) ELSE preset_config.codec
        ext == normalize_ext_for_codec(codec)
    IN  IF SingleFile(files) /\ TruthySeq(a.output) /\ ~is_dir
        THEN Val(a.output)
        ELSE IF TruthySeq(a.output) /\ is_dir
        THEN Join(Val(a.output), Stem(audio_file), ext)
        ELSE Join(Parent(audio_file), Stem(audio_file) \o a.suffix, ext)

\* no safety check
NoSafetyCheck(output_path, audio_file) == output_path

\* main, "Safety check: don't overwrite input file"
SafetyCheck(output_path, audio_file) ==
    IF output_path = audio_file
    THEN Join(Parent(audio_file), Stem(audio_file) \o <<"-compressed">>,
              Suffix(audio_file))
    ELSE output_path

\* main: the output path handed to compress_audio for audio_file
OutputPath(a, preset_config, files, is_dir, audio_file) ==
    SafetyCheck(DerivedOutput(a, preset_config, files, is_dir, audio_file), audio_file)

\* main: output_dir.mkdir(parents=True, exist_ok=True) in directory mode
DirsAfterMkdir(a, is_dir, ds) ==
    IF TruthySeq(a.output) /\ is_dir
    THEN ds \cup {Val(a.output)} ELSE ds

----------------------------------------------------------------------------
(* The external tools and the file system                                  *)

\* os.path.exists(p) for the paths the program asks about
Exists(files, p) == p \in DOMAIN files

\* os.remove(p) of an existing file
Remove(files, p) == [q \in DOMAIN files \ {p} |-> files[q]]

\* a clean-up that leaves the file where it is
KeepFile(files, p) == files

\* the handler's `if os.path.exists(output_path): os.remove(output_path)`
RemoveIfExists(files, p) == IF Exists(files, p) THEN Remove(files, p) ELSE files

\* a file written (created or replaced) at p with size class n
Write(files, p, n) == [q \in DOMAIN files \cup {p} |-> IF q = p THEN n ELSE files[q]]

\* size classes of a file: 0 is empty, 1 the size of an original, 2 larger
OutSizes == {0, 1, 2}

\* durations ffprobe may report, in seconds
Durations == {0, 1, 300, 600, 3600}

Probe(code, kind, val) == [code |-> code, kind |-> kind, val |-> val]

\* run_cmd(ffprobe ...): what the probing tool may answer for a file of the
\* given size class.  An empty file holds no stream, so the tool fails on it.
ProbeOutcomes(size) ==
    IF size = 0 THEN {Probe(1, "none", 0)}
    ELSE {Probe(1, "none", 0), Probe(0, "none", 0), Probe(0, "nonfinite", 0)}
         \cup {Probe(0, "num", d) : d \in Durations}

\* ffprobe_duration(path) on the tool's answer; ok = FALSE is RuntimeError
ffprobe_duration(p) ==
    IF p.code # 0 THEN [ok |-> FALSE, val |-> 0]
    ELSE IF p.kind = "none" \/ p.kind = "nonfinite" THEN [ok |-> FALSE, val |-> 0]
    ELSE [ok |-> TRUE, val |-> p.val]

\* run_cmd(ffmpeg -y ...): the exit code, and the size class of the output
\* file if the tool wrote one
EncodeOutcomes == [code : {0, 1}, wrote : {None} \cup {Some(n) : n \in OutSizes}]

----------------------------------------------------------------------------
(* main() and compress_audio()                                             *)

\* main: the namespace after "Parse target size" and "Store parsed values"
Namespace(a, ts) ==
    [preset |-> a.preset, target_size |-> a.target_size, bitrate |-> a.bitrate,
     output |-> a.output, suffix |-> a.suffix, codec |-> a.codec,
     samplerate |-> a.samplerate, channels |-> a.channels, lufs |-> a.lufs,
     st |-> a.st, sth |-> a.sth, sd |-> a.sd, hp |-> a.hp, lp |-> a.lp,
     ts |-> ts, b |-> a.bitrate, sr |-> a.samplerate, ch |-> a.channels]

\* the namespace with args.lp assigned
WithLp(a, lp) == [a EXCEPT !.lp = lp]

\* what is known of a job: its paths, the path derived before the safety
\* check, whether the output path held a file when the job started, where the
\* job is, what was resolved for it, and what ffmpeg did (its exit code, the
\* size class of what it wrote, whether the output existed when it returned)
NoJob ==
    [input |-> <<>>, output |-> <<>>, derived |-> <<>>, existed |-> FALSE,
     state |-> "none", duration |-> None, original_size |-> None, cmd |-> None,
     code |-> None, wrote |-> None, out_after |-> FALSE]

\* a verdict that takes exit code 0 for success without looking for the file
EncodeVerdictByExitCode(code, exists_after, original_size) ==
    IF code # 0 THEN "encode_error" ELSE "succeeded"

\* compress_audio, lines 278-292 (and the handler for the division of line
\* 288): how the job ends once ffmpeg has returned
EncodeVerdict(code, exists_after, original_size) ==
    IF code # 0 THEN "encode_error"
    ELSE IF exists_after
    THEN IF original_size = 0 THEN "exception" ELSE "succeeded"
    ELSE "no_output"

\* a loop that gives up at the first failed job
RecordResultStopOnFailure(ok) ==
    /\ success_count' = IF ok THEN success_count + 1 ELSE success_count
    /\ failed_count' = IF ok THEN failed_count ELSE failed_count + 1
    /\ results' = Append(results, ok)
    /\ outcomes' = Append(outcomes, job'.state)
    /\ idx' = idx + 1
    /\ pc' = IF ok THEN "loop" ELSE "done"

\* a loop that tries a failed file again
RecordResultRetry(ok) ==
    /\ success_count' = IF ok THEN success_count + 1 ELSE success_count
    /\ failed_count' = IF ok THEN failed_count ELSE failed_count + 1
    /\ results' = Append(results, ok)
    /\ outcomes' = Append(outcomes, job'.state)
    /\ idx' = IF ok THEN idx + 1 ELSE idx
    /\ pc' = "loop"

\* main, lines 471-474: count the value compress_audio returned and go on
\* with the next file
RecordResult(ok) ==
    /\ success_count' = IF ok THEN success_count + 1 ELSE success_count
    /\ failed_count' = IF ok THEN failed_count ELSE failed_count + 1
    /\ results' = Append(results, ok)
    /\ outcomes' = Append(outcomes, job'.state)
    /\ idx' = idx + 1
    /\ pc' = "loop"

\* main, from collect_inputs to the start of the loop: exit(1) when no audio
\* file was found or the target size does not parse
Main ==
    /\ pc = "start"
    /\ LET given == TruthySeq(argv.target_size)
           parsed == human_to_bytes(Val(argv.target_size))
       IN  IF audio_files = <<>> \/ (given /\ ~parsed.ok)
           THEN /\ pc' = "exit"
                /\ UNCHANGED <<args, output_is_dir>>
           ELSE /\ pc' = "loop"
                /\ args' = Namespace(argv, IF given THEN Some(parsed.val) ELSE None)
                /\ output_is_dir' = OutputIsDir(argv, audio_files, dirs)
    /\ UNCHANGED <<argv, audio_files, fs, dirs, idx, job, success_count,
                   failed_count, results, outcomes, visits, started>>

\* main, one loop iteration up to the probe: the output path, then
\* compress_audio's existence check and the start of ffprobe
StartJob ==
    /\ pc = "loop"
    /\ idx <= Len(audio_files)
    /\ LET audio_file == audio_files[idx]
           output_path == OutputPath(args, PRESETS[args.preset], audio_files,
                                     output_is_dir, audio_file)
           j == [NoJob EXCEPT !.input = audio_file, !.output = output_path,
                              !.derived = DerivedOutput(args, PRESETS[args.preset],
                                              audio_files, output_is_dir, audio_file),
                              !.existed = Exists(fs, output_path)]
       IN  /\ dirs' = DirsAfterMkdir(args, output_is_dir, dirs)
           /\ visits' = [visits EXCEPT ![idx] = @ + 1]
           /\ started' = Append(started,
                            [input |-> audio_file, output |-> output_path,
                             probes |-> IF Exists(fs, audio_file) THEN 1 ELSE 0,
                             encodes |-> 0])
           /\ IF ~Exists(fs, audio_file)
              THEN /\ job' = [j EXCEPT !.state = "missing"]
                   /\ RecordResult(FALSE)
              ELSE /\ job' = [j EXCEPT !.state = "probing"]
                   /\ pc' = "probing"
                   /\ UNCHANGED <<idx, success_count, failed_count, results,
                                  outcomes>>
    /\ UNCHANGED <<argv, args, audio_files, output_is_dir, fs>>

\* compress_audio, lines 228-274: ffprobe returns; duration, bitrate, low-pass
\* rule, parameters, filter chain and command; then ffmpeg starts.  Any
\* exception goes to the handler of lines 294-302.
ProbeReturn ==
    /\ pc = "probing"
    /\ \E p \in ProbeOutcomes(fs[job.input]) :
         LET preset_config == PRESETS[args.preset]
             dur == ffprobe_duration(p)
             br == ResolveBitrate(args, preset_config, dur.val)
             args2 == WithLp(args, AdjustLowpass(args, br.val))
             samplerate == IF TruthyInt(args.sr) THEN Val(args.sr)
                           ELSE preset_config.samplerate
             channels == IF TruthyInt(args.ch) THEN Val(args.ch)
                         ELSE preset_config.channels
             codec == IF ~IsNone(args.codec) THEN Val(args.codec)
                      ELSE preset_config.codec
             c == build_ffmpeg_cmd(job.input, job.output, codec, br.val,
                                   samplerate, channels,
                                   build_filterchain(args2, preset_config))
         IN  IF ~dur.ok \/ ~br.ok
             THEN /\ fs' = RemoveIfExists(fs, job.output)
                  /\ job' = [job EXCEPT !.state = IF dur.ok THEN "resolve_error"
                                                  ELSE "probe_error"]
                  /\ RecordResult(FALSE)
                  /\ UNCHANGED <<args, started>>
             ELSE IF ~c.ok
             THEN /\ fs' = RemoveIfExists(fs, job.output)
                  /\ job' = [job EXCEPT !.state = "resolve_error"]
                  /\ RecordResult(FALSE)
                  /\ args' = args2
                  /\ UNCHANGED started
             ELSE /\ job' = [job EXCEPT !.state = "encoding",
                                        !.duration = Some(dur.val),
                                        !.original_size = Some(fs[job.input]),
                                        !.cmd = Some(c.cmd)]
                  /\ args' = args2
                  /\ started' = [started EXCEPT ![Len(started)].encodes = @ + 1]
                  /\ pc' = "encoding"
                  /\ UNCHANGED <<fs, idx, success_count, failed_count, results,
                                 outcomes>>
    /\ UNCHANGED <<argv, audio_files, output_is_dir, dirs, visits>>

\* compress_audio, lines 276-292: ffmpeg returns.  A non-zero exit removes
\* the output and fails; so does an exception; exit 0 without an output file
\* fails and exit 0 with one succeeds, the file kept whatever its size.
EncodeReturn ==
    /\ pc = "encoding"
    /\ \E e \in EncodeOutcomes :
         LET out == job.output
             fs1 == IF IsNone(e.wrote) THEN fs ELSE Write(fs, out, Val(e.wrote))
             verdict == EncodeVerdict(e.code, Exists(fs1, out),
                                      Val(job.original_size))
         IN  /\ job' = [job EXCEPT !.state = verdict, !.duration = None,
                                   !.cmd = None, !.code = Some(e.code),
                                   !.wrote = e.wrote,
                                   !.out_after = Exists(fs1, out)]
             /\ fs' = IF verdict \in {"encode_error", "exception"}
                      THEN RemoveIfExists(fs1, out) ELSE fs1
             /\ RecordResult(verdict = "succeeded")
    /\ UNCHANGED <<argv, args, audio_files, output_is_dir, dirs, visits,
                   started>>

\* main, after the loop: the final summary
Finish ==
    /\ pc = "loop"
    /\ idx > Len(audio_files)
    /\ pc' = "done"
    /\ UNCHANGED <<argv, args, audio_files, output_is_dir, fs, dirs, idx, job,
                   success_count, failed_count, results, outcomes, visits,
                   started>>

Next == Main \/ StartJob \/ ProbeReturn \/ EncodeReturn \/ Finish

----------------------------------------------------------------------------
(* Invocations                                                             *)

\* the largest batch explored
MaxFiles == 2

\* the longest bitrate string explored by SpecParse
MaxLen == 3

D1 == <<Comp(<<"d1">>, "")>>

D2 == <<Comp(<<"d2">>, "")>>

OutDir == <<Comp(<<"out">>, "")>>

\* the audio files an invocation may name, in the order sorted() gives them
AllFiles ==
    << Join(D1, <<"a">>, ".mp3"), Join(D1, <<"a">>, ".opus"),
       Join(D1, <<"a">>, ".wav"), Join(D1, <<"b">>, ".wav"),
       Join(D2, <<"a">>, ".wav") >>

\* collect_inputs(paths): sorted(set(files)) of the files whose positions in
\* AllFiles are in S
RECURSIVE collect_inputs(_, _)
collect_inputs(S, i) ==
    IF i > Len(AllFiles) THEN <<>>
    ELSE (IF i \in S THEN <<AllFiles[i]>> ELSE <<>>) \o collect_inputs(S, i + 1)

Batches(U) == {S \in SUBSET U : Cardinality(S) <= MaxFiles}

\* argparse's defaults: every option absent
DefaultArgv ==
    [preset |-> DEFAULT_PRESET, target_size |-> None, bitrate |-> None,
     output |-> None, suffix |-> <<>>, codec |-> None, samplerate |-> None,
     channels |-> None, lufs |-> None, st |-> FALSE, sth |-> None, sd |-> None,
     hp |-> None, lp |-> None]

\* the state main() starts in, for options A, input positions U and the sets
\* X of files that exist besides the inputs
InitWith(A, U, X) ==
    /\ argv \in A
    /\ args = argv
    /\ \E S \in Batches(U) : audio_files = collect_inputs(S, 1)
    /\ \E extra \in X :
         fs = [q \in {audio_files[i] : i \in 1..Len(audio_files)} \cup extra |-> 1]
    /\ dirs = {D1, D2}
    /\ pc = "start"
    /\ idx = 1
    /\ job = NoJob
    /\ success_count = 0
    /\ failed_count = 0
    /\ results = <<>>
    /\ outcomes = <<>>
    /\ output_is_dir = FALSE
    /\ visits = [i \in 1..Len(audio_files) |-> 0]
    /\ started = <<>>

\* target sizes and bitrates of the batch specification: absent, zero,
\* malformed, one megabyte; absent, empty, below the range, above it, malformed
SizeStrings == {None, Some(<<"0">>), Some(<<"x">>), Some(<<"1", "M", "B">>)}

BitrateStrings ==
    {None, Some(<<>>), Some(<<"1">>), Some(<<"9", "9", "9", "k">>), Some(<<"x">>)}

BitrateArgv ==
    {[DefaultArgv EXCEPT !.preset = p, !.target_size = t, !.bitrate = b, !.lp = l] :
        p \in PresetNames, t \in SizeStrings, b \in BitrateStrings,
        l \in {None, Some(5000)}}

Init == InitWith(BitrateArgv, {1, 2, 4}, {{}, {Join(D1, <<"b">>, ".opus")}})

Spec == Init /\ [][Next]_vars

\* output options: absent, empty, an existing directory, a new name, and the
\* paths of two of the audio files; suffixes; codecs
OutputOptions ==
    {None, Some(<<>>), Some(D1), Some(OutDir), Some(AllFiles[2]), Some(AllFiles[3])}

Suffixes == {<<>>, <<"_s">>, <<"-compressed">>}

CodecOptions == {None} \cup {Some(c) : c \in Codecs}

PathArgv ==
    {[DefaultArgv EXCEPT !.output = o, !.suffix = x, !.codec = c] :
        o \in OutputOptions, x \in Suffixes, c \in CodecOptions}

\* Invocations over the output options.  With several inputs the output
\* option names a directory to create, so it is not an existing regular file
\* (mkdir would raise before the first job).
InitPath ==
    /\ InitWith(PathArgv, 1..Len(AllFiles), {{}})
    /\ ~(Len(audio_files) > 1 /\ TruthySeq(argv.output)
           /\ Exists(fs, Val(argv.output)))

SpecPath == InitPath /\ [][Next]_vars

FilterArgv ==
    {[DefaultArgv EXCEPT !.preset = p, !.st = t, !.sth = th, !.sd = th,
                         !.hp = h, !.lp = l, !.lufs = u] :
        p \in PresetNames, t \in BOOLEAN, th \in {None, Some(3)},
        h \in {None, Some(0), Some(100)}, l \in {None, Some(0), Some(5000)},
        u \in {None, Some(0), Some(-23)}}

InitFilter == InitWith(FilterArgv, {1, 4}, {{}})

SpecFilter == InitFilter /\ [][Next]_vars

BitrateAlphabet == {"0", "3", "k", "K", " ", "x"}

RECURSIVE Strings(_, _)
Strings(alphabet, n) ==
    IF n = 0 THEN {<<>>}
    ELSE LET shorter == Strings(alphabet, n - 1)
         IN  shorter \cup {Append(t, c) : t \in shorter, c \in alphabet}

ParseArgv ==
    {[DefaultArgv EXCEPT !.bitrate = Some(t)] : t \in Strings(BitrateAlphabet, MaxLen)}

\* Invocations over the explicit bitrate strings, with no target size
InitParse == InitWith(ParseArgv, {4}, {{}})

SpecParse == InitParse /\ [][Next]_vars

SizeAlphabet == {"1", "5", ".", "K", "k", "B", "X", " "}

\* the sizes the documentation gives, a plain byte count, and strings the
\* parser must reject
SizeExamples ==
    {<<"2", ".", "5", "M", "B">>, <<"9", "0", "0", "K", "B">>, <<"1", "G", "B">>,
     <<"1", "g", "b">>, <<"2", "5", "0", "0", "0", "0", "0">>,
     <<"a", "b", "c">>, <<"5", "X", "B">>, <<"1", ".", "2", ".", "3">>}

SizeArgv ==
    {[DefaultArgv EXCEPT !.target_size = Some(t)] :
        t \in SizeExamples \cup Strings(SizeAlphabet, MaxLen)}

\* Invocations over the target size strings
InitSize == InitWith(SizeArgv, {4}, {{}})

SpecSize == InitSize /\ [][Next]_vars

----------------------------------------------------------------------------
(* Properties                                                              *)

\* the command of the job ffmpeg is running
Cmd == Val(job.cmd)

\* the low-pass stages of a filter chain
LowpassOf(chain) == SelectSeq(chain, LAMBDA st : st.kind = "lowpass")

\* a job has just been recorded: main is back at the loop head
Recorded == pc = "loop" /\ job.state \notin {"none", "probing", "encoding"}

CountOf(seq, v) == Cardinality({i \in 1..Len(seq) : seq[i] = v})

\* C1: for every job that reaches the encoder, the bitrate passed to it lies
\* in [6000, 512000], whichever source produced it.
C1_BitrateInRange ==
    pc = "encoding" => Cmd.bitrate_bps \in MinBitrate..MaxBitrate

\* C2: the bitrate of a job is the target-size-derived one whenever a target
\* size was supplied (also one of 0 bytes), else the explicit one if a
\* (non-empty) explicit bitrate was supplied, else the preset default.
C2_PrecedenceTotal ==
    pc = "encoding" =>
        IF ~IsNone(argv.target_size)
        THEN LET t == compute_bitrate_for_target_size(
                          human_to_bytes(Val(argv.target_size)).val, Val(job.duration))
             IN  Val(job.duration) > 0 => Cmd.bitrate_bps = t.val
        ELSE IF TruthySeq(argv.bitrate)
        THEN Cmd.bitrate_bps = ParseBitrate(Val(argv.bitrate)).val
        ELSE Cmd.bitrate_bps = PRESETS[argv.preset].bitrate_bps

\* C3: under the voice preset with no low-pass override from the user, the
\* low-pass cutoff of every file is 8000 Hz if that file's bitrate is
\* <= 24000 and the preset's 12000 Hz if it is above.
C3_LowpassFollowsOwnBitrate ==
    (pc = "encoding" /\ argv.preset = "voice" /\ IsNone(argv.lp)) =>
        LowpassOf(Cmd.filterchain) =
            <<Stage("lowpass",
                    IF Cmd.bitrate_bps <= UltraLowBitrate THEN UltraLowLowpass
                    ELSE Val(PRESETS["voice"].lowpass), 0)>>

\* C4: every file of the batch is handed to compress_audio exactly once, in
\* order, whatever became of the files before it; the two counters add up to
\* the files done, the failure counter is the number of jobs that did not
\* succeed, and at the end they add up to the batch size.
C4_EveryFileOnceAndTallied ==
    /\ success_count + failed_count = Len(results)
    /\ success_count = CountOf(results, TRUE)
    /\ failed_count = CountOf(results, FALSE)
    /\ \A i \in 1..Len(results) : results[i] <=> outcomes[i] = "succeeded"
    /\ pc \in {"loop", "probing", "encoding", "done"} =>
          /\ Len(results) = idx - 1
          /\ \A i \in 1..Len(audio_files) :
                visits[i] = IF i < idx \/ (i = idx /\ pc \in {"probing", "encoding"})
                            THEN 1 ELSE 0
    /\ pc = "done" =>
          /\ Len(results) = Len(audio_files)
          /\ \A i \in 1..Len(audio_files) : visits[i] = 1
          /\ CountOf(outcomes, "probe_error") = 1 /\ CountOf(results, FALSE) = 1
                => failed_count = 1 /\ success_count = Len(audio_files) - 1

\* C4 witness: a batch of two ended; the first file failed to probe and the
\* second was still processed, and succeeded.
C4_Witness ==
    /\ pc = "done"
    /\ outcomes = <<"probe_error", "succeeded">>
    /\ failed_count = 1
    /\ success_count = 1

\* C6: when the encoder exits non-zero, then at the moment the job is
\* recorded no file exists at the job's output path and the job has been
\* counted as a failure.
C6_FailedEncodeRemovesOutput ==
    (Recorded /\ ~IsNone(job.code) /\ Val(job.code) # 0) =>
        /\ ~Exists(fs, job.output)
        /\ results[idx - 1] = FALSE
        /\ failed_count = CountOf(results, FALSE)
        /\ failed_count >= 1

\* C6 witness: the encoder exited non-zero after writing a partial output
\* over a file that was there before, and the job has been recorded.
C6_Witness ==
    /\ Recorded
    /\ job.code = Some(1)
    /\ ~IsNone(job.wrote)
    /\ job.existed
    /\ job.out_after

\* C7: a malformed target size or a malformed explicit bitrate ends the run
\* before any file is probed or encoded and before any job is recorded.
C7_MalformedOptionsAreFatal ==
    LET badSize == TruthySeq(argv.target_size)
                      /\ ~human_to_bytes(Val(argv.target_size)).ok
        badBitrate == TruthySeq(argv.bitrate)
                         /\ ~ParseBitrate(Val(argv.bitrate)).ok
    IN  (badSize \/ badBitrate) =>
            /\ pc \notin {"probing", "encoding", "done"}
            /\ results = <<>>
            /\ \A i \in DOMAIN visits : visits[i] = 0

\* C8: a recorded job succeeded iff the encoder exited 0 and a file existed
\* at the output path when it returned; the output of a successful job is
\* still there afterwards with the size the encoder gave it, whatever that
\* size is next to the original's.
C8_SuccessIffExitZeroAndOutput ==
    Recorded =>
        /\ results[idx - 1] <=>
              (job.code = Some(0) /\ job.out_after)
        /\ results[idx - 1] =>
              /\ Exists(fs, job.output)
              /\ ~IsNone(job.wrote) => fs[job.output] = Val(job.wrote)

\* C8 witness: a job succeeded with an output larger than the original.
C8_Witness ==
    /\ Recorded
    /\ results[idx - 1]
    /\ job.code = Some(0)
    /\ ~IsNone(job.wrote)
    /\ fs[job.output] > Val(job.original_size)

\* the file name <stem>-compressed<ext> beside an input
CompressedName(p) == Join(Parent(p), Stem(p) \o <<"-compressed">>, Suffix(p))

\* C5: for every input and every combination of output options, the output
\* path of the job differs from the job's input path; when the derivation
\* yields the input path the output is <stem>-compressed<original extension>
\* in the input's directory, and otherwise it is the derived path.
C5_OutputNeverInput ==
    job.state # "none" =>
        /\ job.output # job.input
        /\ job.derived = job.input => job.output = CompressedName(job.input)
        /\ job.derived # job.input => job.output = job.derived
        /\ pc = "encoding" => Cmd.output # Cmd.input

\* C5 witness: the derivation gave the input path itself (an explicit output
\* file equal to the single input) and the job reached the encoder.
C5_Witness ==
    /\ pc = "encoding"
    /\ job.derived = job.input
    /\ argv.output = Some(job.input)
    /\ Cmd.output = CompressedName(job.input)

StageRank(kind) ==
    CASE kind = "silenceremove" -> 1
      [] kind = "highpass" -> 2
      [] kind = "lowpass" -> 3
      [] kind = "loudnorm" -> 4

\* C9: whatever filters and overrides are given, the stages present in the
\* chain handed to the encoder are in the order silence-trim, high-pass,
\* low-pass, loudness-normalization, each at most once.
C9_StageOrderFixed ==
    pc = "encoding" =>
        \A i, j \in 1..Len(Cmd.filterchain) :
            i < j => StageRank(Cmd.filterchain[i].kind)
                        < StageRank(Cmd.filterchain[j].kind)

\* C9 witness: a chain with all four stages, the cut-offs from overrides.
C9_Witness ==
    /\ pc = "encoding"
    /\ Len(Cmd.filterchain) = 4
    /\ argv.hp = Some(100)
    /\ argv.lp = Some(5000)

\* s is spaces, digits (positions p1+1..p2), spaces, an optional k or K
\* (position p4 if p4 > p3), spaces
IsIntK(s, p1, p2, p3, p4) ==
    /\ p1 < p2 /\ p2 <= p3 /\ p3 <= p4 /\ p4 <= p3 + 1
    /\ \A i \in 1..p1 : s[i] \in SpaceChars
    /\ \A i \in (p1 + 1)..p2 : s[i] \in DigitChars
    /\ \A i \in (p2 + 1)..p3 : s[i] \in SpaceChars
    /\ p4 > p3 => s[p4] \in {"k", "K"}
    /\ \A i \in (p4 + 1)..Len(s) : s[i] \in SpaceChars

\* the decimal value of the digits of s at positions lo..hi
RECURSIVE Decimal(_, _, _)
Decimal(s, lo, hi) ==
    IF lo > hi THEN 0
    ELSE DigitVal(s[lo]) * Pow10(hi - lo) + Decimal(s, lo + 1, hi)

Positions(s) == 0..Len(s)

\* C10, as amended: with no target size in effect, a non-empty explicit
\* bitrate string made of an integer and an optional k resolves to the
\* integer x 1000 bits/sec, with or without the k; every other non-empty
\* string is rejected, and only such strings are.
C10_IntegerTimesThousand ==
    pc \in {"loop", "encoding", "done"} /\ BitrateSource(args) = "explicit" =>
        LET s == Val(argv.bitrate)
            wellFormed == \E p1, p2, p3, p4 \in Positions(s) : IsIntK(s, p1, p2, p3, p4)
        IN  /\ pc = "encoding" =>
                \E p1, p2, p3, p4 \in Positions(s) :
                    /\ IsIntK(s, p1, p2, p3, p4)
                    /\ Cmd.bitrate_bps = Decimal(s, p1 + 1, p2) * 1000
            /\ job.state = "resolve_error" => ~wellFormed
            /\ job.state = "succeeded" => wellFormed

\* C10 witness: "3" and "30" without a k reached the encoder as 3000 and
\* 30000 bits/sec.
C10_Witness ==
    /\ pc = "encoding"
    /\ argv.bitrate \in {Some(<<"3">>), Some(<<"3", "0">>)}
    /\ Cmd.bitrate_bps \in {3000, 30000}

\* C10: <integer>k resolves to integer x 1000 bits/sec and <integer> without
\* a k to that integer taken as bits/sec.
C10_BareIntegerIsBitsPerSecond ==
    pc = "encoding" /\ BitrateSource(args) = "explicit" =>
        LET s == Val(argv.bitrate)
        IN  \E p1, p2, p3, p4 \in Positions(s) :
                /\ IsIntK(s, p1, p2, p3, p4)
                /\ Cmd.bitrate_bps = IF p4 > p3 THEN Decimal(s, p1 + 1, p2) * 1000
                                     ELSE Decimal(s, p1 + 1, p2)

\* ------------------------------------------------------------------------
\* C11: a probe that yields a duration that is not positive fails: the
\* encoder is never invoked with a probed duration of zero or less,
\* whichever bitrate source is in use.
C11_NonPositiveDurationFailsProbe ==
    pc = "encoding" => Val(job.duration) > 0

\* ------------------------------------------------------------------------
\* the largest target size whose bit count times 97 is a machine integer
MaxExactTarget == 2147483647 \div (8 * 97)

C12_WitnessClampedAbove ==
    /\ pc = "encoding" /\ BitrateSource(args) = "target_size"
    /\ Val(args.ts) = 2500000 /\ Val(job.duration) = 1
    /\ Cmd.bitrate_bps = MaxBitrate

C12_WitnessClampedBelow ==
    /\ pc = "encoding" /\ BitrateSource(args) = "target_size"
    /\ Val(args.ts) = 2500000 /\ Val(job.duration) = 3600
    /\ Cmd.bitrate_bps = MinBitrate

\* ------------------------------------------------------------------------
\* C13: in any batch, two distinct input files never get the same output
\* path, so that when the encoder is started for a file, the path it writes
\* to is not where an earlier job of the run left its output.
C13_OutputsPairwiseDistinct ==
    pc = "encoding" =>
        \A i \in 1..Len(outcomes) :
            outcomes[i] = "succeeded" /\ started[i].input # job.input =>
                started[i].output # Cmd.output

\* ------------------------------------------------------------------------
HasStage(chain, kind) == \E i \in 1..Len(chain) : chain[i].kind = kind

\* C14: the chain handed to the encoder has a high-pass stage exactly when a
\* high-pass cutoff was given on the command line (whatever its value, 0
\* included) or the preset defines one, and a low-pass stage exactly when a
\* low-pass cutoff was given, the preset defines one, or the ultra-low
\* bitrate rule of the voice preset applies.
C14_StagePresentIffCutoffGiven ==
    pc = "encoding" =>
        LET preset_config == PRESETS[argv.preset]
            ultraLow == /\ argv.preset = "voice"
                        /\ Cmd.bitrate_bps <= UltraLowBitrate
                        /\ IsNone(argv.lp)
        IN  /\ HasStage(Cmd.filterchain, "highpass") <=>
                  (~IsNone(argv.hp) \/ ~IsNone(preset_config.highpass))
            /\ HasStage(Cmd.filterchain, "lowpass") <=>
                  (~IsNone(argv.lp) \/ ~IsNone(preset_config.lowpass) \/ ultraLow)

\* ------------------------------------------------------------------------
\* s[(lo+1)..hi] is a decimal number: digits with one dot at most, at
\* position d (d = hi + 1: no dot), and a digit at least
IsNumber(s, lo, hi, d) ==
    /\ lo < hi /\ lo < d /\ d <= hi + 1
    /\ d <= hi => s[d] = "."
    /\ \A i \in (lo + 1)..hi : i # d => s[i] \in DigitChars
    /\ \E i \in (lo + 1)..hi : s[i] \in DigitChars

\* the integer part of the number s[(lo+1)..hi], with its dot at d, times n
IntegerPartTimes(s, lo, hi, d, n) ==
    LET places == IF d > hi THEN 0 ELSE hi - d
    IN  ((Decimal(s, lo + 1, d - 1) * Pow10(places) + Decimal(s, d + 1, hi)) * n)
            \div Pow10(places)

\* s[(lo+1)..hi] is nothing or one of B, KB, MB, GB in either case, and k is
\* its power of 1024
IsUnit(s, lo, hi, k) ==
    \/ hi = lo /\ k = 0
    \/ hi = lo + 1 /\ k = 0 /\ s[hi] \in {"B", "b"}
    \/ /\ hi = lo + 2
       /\ s[hi] \in {"B", "b"}
       /\ \/ k = 1 /\ s[lo + 1] \in {"K", "k"}
          \/ k = 2 /\ s[lo + 1] \in {"M", "m"}
          \/ k = 3 /\ s[lo + 1] \in {"G", "g"}

Pow1024(k) == IF k = 0 THEN 1 ELSE IF k = 1 THEN 1024
              ELSE IF k = 2 THEN 1024 * 1024 ELSE 1024 * 1024 * 1024

\* s is <number><unit>, spaces allowed around either: spaces up to p1, the
\* number up to p2 with its dot at d, spaces up to p3, the unit up to p4
IsSize(s, p1, p2, d, p3, p4, k) ==
    /\ p1 < p2 /\ p2 <= p3 /\ p3 <= p4 /\ p4 <= Len(s)
    /\ \A i \in 1..p1 : s[i] \in SpaceChars
    /\ IsNumber(s, p1, p2, d)
    /\ \A i \in (p2 + 1)..p3 : s[i] \in SpaceChars
    /\ IsUnit(s, p3, p4, k)
    /\ \A i \in (p4 + 1)..Len(s) : s[i] \in SpaceChars

\* C15: a target size string <number><unit>, with unit B, KB, MB or GB in
\* either case or absent, parses to the integer part of number x 1024^k:
\* "2.5MB" is 2621440, "900KB" is 921600 and "1GB" is 1073741824.  Every
\* other string, "abc" and "5XB" among them, is an error: the run ends
\* before any file is processed.
C15_SizeParser ==
    pc # "start" /\ audio_files # <<>> /\ TruthySeq(argv.target_size) =>
        LET s == Val(argv.target_size)
            P == 0..(Len(s) + 1)
            wellFormed == \E p1, p2, d, p3, p4 \in P : \E k \in 0..3 :
                              IsSize(s, p1, p2, d, p3, p4, k)
        IN  /\ pc = "exit" <=> ~wellFormed
            /\ pc # "exit" =>
                 \E p1, p2, d, p3, p4 \in P : \E k \in 0..3 :
                    /\ IsSize(s, p1, p2, d, p3, p4, k)
                    /\ args.ts = Some(IntegerPartTimes(s, p1, p2, d, Pow1024(k)))
            /\ s = <<"2", ".", "5", "M", "B">> => args.ts = Some(2621440)
            /\ s = <<"9", "0", "0", "K", "B">> => args.ts = Some(921600)
            /\ s = <<"1", "G", "B">> => args.ts = Some(1073741824)
            /\ s \in {<<"a", "b", "c">>, <<"5", "X", "B">>} => pc = "exit"

\* a documented size has been parsed and the first file is being probed
C15_Witness ==
    /\ pc = "probing"
    /\ argv.target_size = Some(<<"2", ".", "5", "M", "B">>)
    /\ args.ts = Some(2621440)

\* a malformed size has ended the run
C15_WitnessMalformed ==
    /\ pc = "exit"
    /\ audio_files # <<>>
    /\ argv.target_size = Some(<<"5", "X", "B">>)

\* ------------------------------------------------------------------------
\* C16: the encoder is started for a file only after the probe has returned
\* and the job's parameters are resolved; with a target size given on the
\* command line a probed duration of zero or less is an error, so the
\* encoder is then never started; and a job whose probe or bitrate
\* resolution failed has not started the encoder and is counted as failed.
C16_EncoderOnlyAfterResolution ==
    /\ pc = "encoding" =>
          /\ ~IsNone(job.duration) /\ ~IsNone(job.cmd)
          /\ ~IsNone(args.ts) => Val(job.duration) > 0
    /\ Recorded /\ job.state \in {"probe_error", "resolve_error"} =>
          /\ started[Len(started)].encodes = 0
          /\ results[Len(results)] = FALSE

\* ------------------------------------------------------------------------
\* the position of an audio file in the sorted order
PositionOf(p) == CHOOSE i \in 1..Len(AllFiles) : AllFiles[i] = p

\* the external processes that are running
Running ==
    (IF pc = "probing" THEN {"ffprobe"} ELSE {})
        \cup (IF pc = "encoding" THEN {"ffmpeg"} ELSE {})

\* C17: files are handled one after another in sorted order with no retry:
\* the i-th job begun is that of the i-th discovered file, ffprobe is started
\* at most once and ffmpeg at most once for it, at most one external process
\* runs at a time, and a job is begun only when every job begun before it
\* has its outcome recorded.
C17_SequentialNoRetry ==
    /\ Len(started) <= Len(audio_files)
    /\ \A i \in 1..Len(started) :
          /\ started[i].input = audio_files[i]
          /\ started[i].probes <= 1
          /\ started[i].encodes <= 1
          /\ started[i].encodes = 1 => started[i].probes = 1
    /\ \A i, j \in 1..Len(started) :
          i < j => PositionOf(started[i].input) < PositionOf(started[j].input)
    /\ Cardinality(Running) <= 1
    /\ Len(outcomes) = IF Running = {} THEN Len(started) ELSE Len(started) - 1
    /\ Running # {} => job.input = started[Len(started)].input

\* the first file's job failed after its encoder ran, it was not tried again,
\* and the second file has been probed and is being encoded
C17_Witness ==
    /\ pc = "encoding"
    /\ Len(started) = 2
    /\ outcomes = <<"encode_error">>
    /\ started[1].probes = 1 /\ started[1].encodes = 1
    /\ started[2].probes = 1 /\ started[2].encodes = 1

\* ------------------------------------------------------------------------
\* C18: processing files leaves the options the user gave as they were: at
\* every point of the loop each option in the namespace still has the value
\* from the command line; in particular a low-pass override that was not
\* given is still absent.
C18_OptionsUnchanged ==
    pc \in {"loop", "probing", "encoding", "done"} =>
        /\ \A f \in DOMAIN argv : args[f] = argv[f]
        /\ IsNone(argv.lp) => IsNone(args.lp)

\* ------------------------------------------------------------------------
\* C19: a job that fails before the encoder is run removes no file it did
\* not create: a file that was at the job's output path when the job
\* started is still there when the job is recorded as failed.
C19_EarlyFailureKeepsExistingOutput ==
    Recorded /\ job.state \in {"missing", "probe_error", "resolve_error"}
             /\ job.existed =>
        Exists(fs, job.output)

\* ------------------------------------------------------------------------
\* C20: the output path of a job is never the path of another input of the
\* batch: the encoder is never started with an output path that is a
\* discovered input file other than the job's own.
C20_OutputNeverAnotherInput ==
    pc = "encoding" =>
        \A i \in 1..Len(audio_files) :
            audio_files[i] # Cmd.input => audio_files[i] # Cmd.output

=============================================================================
